---- MODULE Spec2Model ----
(***************************************************************************)
(* The statement-import wizard of the budget tracker: the UploadView       *)
(* component with its PasswordDialog and DateRangePicker, the expenseAPI    *)
(* calls it makes, and the backend's session store behind those calls.     *)
(* A user click, a request served by the backend and a response handled by *)
(* the component are one step each, so requests in flight interleave with   *)
(* further clicks exactly as the rendered controls allow.                  *)
(***************************************************************************)
EXTENDS Integers, Sequences, FiniteSets, TLC

\* ------------------------------------------------------------------ bounds
\* The number of clicks the modelled user makes in one run. Every request
\* starts from a click, so this also bounds the requests in flight and the
\* sessions the backend hands out.
MaxClicks == 7

\* --------------------------------------------------------- null references
NoFile == 0
NoSession == 0
NoPassword == ""

\* ------------------------------------------------------------- input files
\* A file name as its characters; the rows are what the extractor finds.
FileIds == 1 .. 4

FileName(f) ==
  CASE f = 1 -> <<"a", ".", "c", "s", "v">>
    [] f = 2 -> <<"b", ".", "P", "D", "F">>
    [] f = 3 -> <<"c", ".", "x", "l", "s">>
    [] OTHER -> <<"d", ".", "t", "x", "t">>

FileEncrypted(f) == f = 2
FilePassword(f) == "good"
FileParseable(f) == f # 3

Row(d, desc, amt, cat, conf) ==
  [date |-> d, description |-> desc, amount |-> amt,
   suggested_category |-> cat, confidence |-> conf]

FileRows(f) ==
  CASE f = 1 -> << Row(1, "walmart", 50, "Other", "low"),
                   Row(1, "cafe", 8, "Entertainment", "medium") >>
    [] f = 2 -> << Row(1, "uber", 12, "Transport", "low"),
                   Row(2, "rent", 900, "Rent", "high") >>
    [] OTHER -> << >>

Dates == {1, 2}
PasswordInputs == {"", " ", "good", "bad"}

CATEGORIES ==
  << "Groceries", "Entertainment", "Rent", "Transport", "Bills", "Shopping",
     "Healthcare", "Income", "Other", "Uncategorized" >>

\* The categories the modelled user picks among in the clarification dialog.
CategoryChoices == {CATEGORIES[1], CATEGORIES[9]}

\* ------------------------------------------------------ file-type checking
ToLower(c) ==
  CASE c = "P" -> "p" [] c = "D" -> "d" [] c = "F" -> "f"
    [] c = "C" -> "c" [] c = "S" -> "s" [] c = "V" -> "v"
    [] c = "X" -> "x" [] c = "L" -> "l" [] OTHER -> c

LowerName(n) == [i \in 1 .. Len(n) |-> ToLower(n[i])]

\* /\.[^.]+$/ : the last dot with at least one character after it.
FileExt(n) ==
  LET dots == {i \in 1 .. Len(n) : n[i] = "."}
  IN IF dots = {} THEN << >>
     ELSE LET last == CHOOSE i \in dots : \A j \in dots : j <= i
          IN IF last = Len(n) THEN << >> ELSE SubSeq(n, last, Len(n))

allowedExtensions ==
  { <<".", "c", "s", "v">>, <<".", "p", "d", "f">>,
    <<".", "x", "l", "s", "x">>, <<".", "x", "l", "s">> }

ValidFile(f) == FileExt(LowerName(FileName(f))) \in allowedExtensions

\* ------------------------------------------------------------ error texts
UploadDefaultError == "Failed to upload file"
SelectDefaultError == "Failed to filter date range"
ImportDefaultError == "Failed to import transactions"

\* err.response?.data?.message || err.response?.data?.error || fallback
ErrorMessage(resp, fallback) ==
  IF resp.message # "" THEN resp.message
  ELSE IF resp.error # "" THEN resp.error
  ELSE fallback

\* ------------------------------------------------- backend: range filter
InRange(row, startDate, endDate) == startDate <= row.date /\ row.date <= endDate

FilterRows(rows, startDate, endDate) ==
  SelectSeq(rows, LAMBDA row : InRange(row, startDate, endDate))

IsAmbiguous(row) == row.confidence \in {"medium", "low"}

RECURSIVE GroupItems(_, _)
\* Merchant-level grouping in first-seen order; the first-seen suggestion wins.
GroupItems(rows, acc) ==
  IF rows = << >> THEN acc
  ELSE LET row == Head(rows)
           hit == {i \in 1 .. Len(acc) : acc[i].description = row.description}
       IN IF ~IsAmbiguous(row) THEN GroupItems(Tail(rows), acc)
          ELSE IF hit = {}
          THEN GroupItems(Tail(rows),
                 Append(acc, [index |-> Len(acc),
                              description |-> row.description,
                              suggested_category |-> row.suggested_category,
                              transaction_count |-> 1]))
          ELSE LET i == CHOOSE j \in hit : TRUE
               IN GroupItems(Tail(rows),
                    [acc EXCEPT ![i].transaction_count = @ + 1])

AmbiguousItemsOf(rows) == GroupItems(rows, << >>)

MinDate(rows) == CHOOSE d \in Dates :
  (\E i \in 1 .. Len(rows) : rows[i].date = d)
  /\ \A i \in 1 .. Len(rows) : d <= rows[i].date
MaxDate(rows) == CHOOSE d \in Dates :
  (\E i \in 1 .. Len(rows) : rows[i].date = d)
  /\ \A i \in 1 .. Len(rows) : rows[i].date <= d

\* ------------------------------------------------------ response payloads
NoResp ==
  [status |-> "none", session_id |-> NoSession, date_range |-> << >>,
   needs_clarification |-> FALSE, ambiguous_items |-> << >>,
   imported |-> 0, total |-> 0, message |-> "", error |-> ""]

PasswordRequiredResp == [NoResp EXCEPT !.status = "password_required"]

ExtractedResp(sid, rows) ==
  [NoResp EXCEPT !.status = "extracted", !.session_id = sid,
     !.date_range = << [min_date |-> MinDate(rows), max_date |-> MaxDate(rows)] >>]

SelectResp(items) ==
  [NoResp EXCEPT !.status = "ok", !.needs_clarification = (items # << >>),
     !.ambiguous_items = items]

ImportResp(imported, total) ==
  [NoResp EXCEPT !.status = "ok", !.imported = imported, !.total = total,
     !.message = "Import complete"]

ErrorResp(kind, message) ==
  [NoResp EXCEPT !.status = "error", !.error = kind, !.message = message]

\* ------------------------------------------------------------------- state
VARIABLES
  ui,           \* the UploadView component's state, one field per useState
  net,          \* the wizard's requests between client and backend
  sessions,     \* backend: the session store
  nextSession,  \* backend: the next session id to hand out
  ev,           \* history: the step last taken
  chosen,       \* history: the user's last pick per ambiguous item
  importsDone,  \* history: import calls that succeeded, per session
  clicks,       \* history: the clicks made so far
  askedPassword,\* history: files an upload of which came back password_required
  lastSelect,   \* history: per session, the last answered select call
  wrongTries,   \* history: wrong-password failures in a row for the file selected
  cancelled,    \* history: session ids held when the clarification dialog was cancelled
  activeView,   \* Dashboard: the view shown in the main content
  timeouts,     \* callbacks scheduled with setTimeout and not yet run
  localStorage, \* the browser's localStorage: access_token, refresh_token
  tokens,       \* AuthProvider: the tokens state
  user,         \* AuthProvider: the user state
  fetching,     \* AuthProvider: fetchCurrentUser awaits its answer
  location,     \* the route the browser is at
  apiCalls,     \* requests made through the axios instance api, in flight
  refreshes,    \* AuthProvider: refresh requests of the interval, in flight
  loggedOut,    \* history: logout has run and no login has succeeded since
  needsOnboarding,    \* AppContent: the needsOnboarding state
  profileChecks,      \* AppContent: getProfile calls of the check, in flight
  hasLocation,        \* backend: the user's profile has a state and a city
  currentStep,        \* OnboardingWizard: the step shown
  selectedCategories, \* OnboardingWizard: the categories selected
  visited,      \* history: the steps shown since the categories were selected
  wentBack      \* history: Back was pressed since the categories were selected

server == << sessions, nextSession >>
auth == << localStorage, tokens, user, fetching, location, apiCalls,
          refreshes, loggedOut >>
app == << needsOnboarding, profileChecks, hasLocation >>
onboarding == << currentStep, selectedCategories, visited, wentBack >>
host == << activeView, timeouts, auth, app, onboarding >>
wizard == << ui, net, sessions, nextSession, chosen, importsDone, clicks,
            askedPassword, lastSelect, wrongTries, cancelled, activeView,
            timeouts >>
pages == << wizard, onboarding >>
vars == << ui, net, sessions, nextSession, ev, chosen, importsDone, clicks,
          askedPassword, lastSelect, wrongTries, cancelled, activeView, timeouts,
          localStorage, tokens, user, fetching, location, apiCalls,
          refreshes, loggedOut, needsOnboarding, profileChecks, hasLocation,
          currentStep, selectedCategories, visited, wentBack >>

\* ------------------------------------------------------------------ tokens
NoToken == ""
NoUser == ""
AccessTokens == {"a1", "a2"}
RefreshTokens == {"r1"}

\* Dashboard's views; UploadView is mounted while the upload view is active
VIEWS == [EXPENSES |-> "expenses", ANALYTICS |-> "analytics",
          UPLOAD |-> "upload", BUDGET |-> "budget", PROFILE |-> "profile"]

\* The onUploadComplete prop as Dashboard passes it: <UploadView /> gives none
onUploadComplete == "undefined"

Ev(op, tag) == [op |-> op, tag |-> tag]

\* OnboardingWizard
STEPS == [BASIC_INFO |-> 1, CATEGORY_SELECTION |-> 2, GROCERIES |-> 3,
          TRANSPORT |-> 4, ENTERTAINMENT |-> 5, BILLS |-> 6, REVIEW |-> 7]
CATEGORY_ORDER == << "Groceries", "Transport", "Entertainment", "Bills" >>

\* OnboardingWizard's useState initial values
OnboardingInit ==
  /\ currentStep = STEPS.BASIC_INFO
  /\ selectedCategories = {}
  /\ visited = << >>
  /\ wentBack = FALSE

WizardInit ==
  /\ ui = [uploadPhase |-> "upload",
           file |-> NoFile,
           uploading |-> FALSE,
           error |-> "",
           result |-> << >>,
           sessionId |-> NoSession,
           dateRange |-> << >>,
           showPasswordDialog |-> FALSE,
           passwordError |-> "",
           showDateRangePicker |-> FALSE,
           showClarificationDialog |-> FALSE,
           ambiguousItems |-> << >>,
           clarifications |-> << >>,
           processingClarifications |-> FALSE]
  /\ net = {}
  /\ sessions = {}
  /\ nextSession = 1
  /\ ev = Ev("init", "")
  /\ chosen = << >>
  /\ importsDone = << >>
  /\ clicks = 0
  /\ askedPassword = {}
  /\ lastSelect = << >>
  /\ wrongTries = 0
  /\ cancelled = {}
  /\ timeouts = 0

\* The wizard is studied with a user logged in and the upload view open
Init ==
  /\ WizardInit
  /\ activeView = VIEWS.UPLOAD
  /\ localStorage = [access_token |-> "a1", refresh_token |-> "r1"]
  /\ tokens = [access |-> "a1", refresh |-> "r1"]
  /\ user = "u"
  /\ fetching = FALSE
  /\ location = "/dashboard"
  /\ apiCalls = {}
  /\ refreshes = {}
  /\ loggedOut = FALSE
  /\ needsOnboarding = FALSE
  /\ profileChecks = 0
  /\ hasLocation = TRUE
  /\ OnboardingInit

\* ---------------------------------------------------------------- requests
Slots == 1 .. MaxClicks
FreeSlots == Slots \ {r.slot : r \in net}
NewSlot == CHOOSE k \in FreeSlots : \A j \in FreeSlots : k <= j

Request(slot, kind) ==
  [slot |-> slot, kind |-> kind, stage |-> "sent",
   file |-> NoFile, password |-> NoPassword,
   session_id |-> NoSession, start_date |-> 0, end_date |-> 0,
   clarifications |-> << >>, fromSelect |-> FALSE,
   found |-> FALSE, rows |-> << >>]

\* expenseAPI.uploadStatement: the password travels only when it is non-empty
uploadStatement(slot, f, password) ==
  [Request(slot, "upload") EXCEPT !.file = f, !.password = password]

selectDateRange(slot, sid, startDate, endDate) ==
  [Request(slot, "select") EXCEPT
     !.session_id = sid, !.start_date = startDate, !.end_date = endDate]

\* A slip: the session id is not put into the request body
importTransactionsNoSessionId(slot, sid, clarificationsData, fromSelect) ==
  [Request(slot, "import") EXCEPT
     !.clarifications = clarificationsData, !.fromSelect = fromSelect]

importTransactions(slot, sid, clarificationsData, fromSelect) ==
  [Request(slot, "import") EXCEPT
     !.session_id = sid, !.clarifications = clarificationsData,
     !.fromSelect = fromSelect]

\* ------------------------------------------------------- what is rendered
\* Each dialog is a full-screen fixed overlay; of several open ones the one
\* later in the document is on top and takes the clicks.
PickerShown == ui.showDateRangePicker /\ ui.dateRange # << >>
ClarificationOnTop == ui.showClarificationDialog
PickerOnTop == PickerShown /\ ~ui.showClarificationDialog
PasswordOnTop ==
  ui.showPasswordDialog /\ ~PickerShown /\ ~ui.showClarificationDialog
PageOnTop ==
  ~ui.showPasswordDialog /\ ~PickerShown /\ ~ui.showClarificationDialog

UploadButtonShown == ui.file # NoFile /\ ui.uploadPhase = "upload"
UploadButtonDisabled == ui.uploading
\* String.prototype.trim on the inputs the model types
trim(password) == IF password = " " THEN "" ELSE password
\* A slip: Unlock stays disabled once an upload has failed
UnlockDisabledAfterFailure(password) ==
  trim(password) = "" \/ ui.error # ""

UnlockDisabled(password) == trim(password) = ""
PickerDisabled == ui.uploading
ConfirmDisabled == ui.processingClarifications

\* ------------------------------------------------- UploadView: handlers
\* Each operator is the component state a handler leaves, all its setState
\* calls of one synchronous run applied together.

\* A slip: the extension is not checked
handleFileChangeNoExtensionCheck(selectedFile) ==
  IF selectedFile # NoFile
  THEN [ui EXCEPT !.file = selectedFile, !.error = "", !.result = << >>,
                  !.uploadPhase = "upload", !.sessionId = NoSession,
                  !.dateRange = << >>, !.showPasswordDialog = FALSE,
                  !.showDateRangePicker = FALSE,
                  !.showClarificationDialog = FALSE,
                  !.ambiguousItems = << >>, !.clarifications = << >>]
  ELSE [ui EXCEPT !.error = "Please select a valid file (CSV, PDF, or Excel)",
                  !.file = NoFile]

handleFileChange(selectedFile) ==
  IF selectedFile # NoFile /\ ValidFile(selectedFile)
  THEN [ui EXCEPT !.file = selectedFile, !.error = "", !.result = << >>,
                  !.uploadPhase = "upload", !.sessionId = NoSession,
                  !.dateRange = << >>, !.showPasswordDialog = FALSE,
                  !.showDateRangePicker = FALSE,
                  !.showClarificationDialog = FALSE,
                  !.ambiguousItems = << >>, !.clarifications = << >>]
  ELSE [ui EXCEPT !.error = "Please select a valid file (CSV, PDF, or Excel)",
                  !.file = NoFile]

handleUploadNoFile == [ui EXCEPT !.error = "Please select a file first"]

handleUploadStart ==
  [ui EXCEPT !.uploading = TRUE, !.error = "", !.passwordError = ""]

handleUploadPasswordRequired ==
  [ui EXCEPT !.showPasswordDialog = TRUE, !.uploading = FALSE]

\* A slip: the password dialog is left open
handleUploadExtractedKeepsDialog(data) ==
  [ui EXCEPT !.sessionId = data.session_id, !.dateRange = data.date_range,
             !.uploadPhase = "date_range",
             !.showDateRangePicker = TRUE, !.uploading = FALSE]

handleUploadExtracted(data) ==
  [ui EXCEPT !.sessionId = data.session_id, !.dateRange = data.date_range,
             !.uploadPhase = "date_range", !.showPasswordDialog = FALSE,
             !.showDateRangePicker = TRUE, !.uploading = FALSE]

\* A slip: the message is read without the fallbacks
handleUploadCatchNoFallback(resp) ==
  [ui EXCEPT !.error = resp.message, !.uploading = FALSE]

\* A slip: a failed upload dismisses the password dialog
handleUploadCatchClosesDialog(resp) ==
  [ui EXCEPT !.error = ErrorMessage(resp, UploadDefaultError),
             !.showPasswordDialog = FALSE, !.uploading = FALSE]

handleUploadCatch(resp) ==
  [ui EXCEPT !.error = ErrorMessage(resp, UploadDefaultError),
             !.uploading = FALSE]

handlePasswordCancel ==
  [ui EXCEPT !.showPasswordDialog = FALSE, !.file = NoFile]

handleDateRangeSelectStart == [ui EXCEPT !.uploading = TRUE, !.error = ""]

\* forEach over the items: a later item with the same index overwrites
initialClarifications(items) ==
  [i \in {items[k].index : k \in 1 .. Len(items)} |->
     LET ks == {k \in 1 .. Len(items) : items[k].index = i}
         k == CHOOSE x \in ks : \A y \in ks : y <= x
     IN items[k].suggested_category]

handleDateRangeSelectClarify(data) ==
  [ui EXCEPT !.ambiguousItems = data.ambiguous_items,
             !.clarifications = initialClarifications(data.ambiguous_items),
             !.uploadPhase = "clarify", !.showDateRangePicker = FALSE,
             !.showClarificationDialog = TRUE, !.uploading = FALSE]

handleDateRangeSelectCatch(resp) ==
  [ui EXCEPT !.error = ErrorMessage(resp, SelectDefaultError),
             !.uploading = FALSE]

handleDateRangeCancel ==
  [ui EXCEPT !.showDateRangePicker = FALSE, !.file = NoFile,
             !.sessionId = NoSession, !.dateRange = << >>,
             !.uploadPhase = "upload"]

\* A slip: the previous picks are not spread into the new object
handleClarificationChangeDropsPrev(index, category) ==
  [ui EXCEPT !.clarifications = [i \in {index} |-> category]]

handleClarificationChange(index, category) ==
  [ui EXCEPT !.clarifications =
     [i \in (DOMAIN @) \cup {index} |-> IF i = index THEN category ELSE @[i]]]

handleImportStart ==
  [ui EXCEPT !.processingClarifications = TRUE, !.error = ""]

\* A slip: the session id is kept after the import
handleImportSuccessKeepsSession(data, fromSelect) ==
  [ui EXCEPT !.result = << [imported |-> data.imported, total |-> data.total,
                            message |-> data.message] >>,
             !.showClarificationDialog = FALSE, !.ambiguousItems = << >>,
             !.clarifications = << >>,
             !.file = NoFile, !.uploadPhase = "upload",
             !.processingClarifications = FALSE,
             !.uploading = IF fromSelect THEN FALSE ELSE @]

\* the awaiting handleDateRangeSelect, when there is one, then runs its finally
handleImportSuccess(data, fromSelect) ==
  [ui EXCEPT !.result = << [imported |-> data.imported, total |-> data.total,
                            message |-> data.message] >>,
             !.showClarificationDialog = FALSE, !.ambiguousItems = << >>,
             !.clarifications = << >>, !.sessionId = NoSession,
             !.file = NoFile, !.uploadPhase = "upload",
             !.processingClarifications = FALSE,
             !.uploading = IF fromSelect THEN FALSE ELSE @]

\* A slip: a failed import forgets the session as a finished one does
handleImportCatchForgetsSession(resp, fromSelect) ==
  [ui EXCEPT !.error = ErrorMessage(resp, ImportDefaultError),
             !.sessionId = NoSession, !.uploadPhase = "upload",
             !.processingClarifications = FALSE,
             !.uploading = IF fromSelect THEN FALSE ELSE @]

handleImportCatch(resp, fromSelect) ==
  [ui EXCEPT !.error = ErrorMessage(resp, ImportDefaultError),
             !.processingClarifications = FALSE,
             !.uploading = IF fromSelect THEN FALSE ELSE @]

\* A slip: the session id is kept on cancel
handleCancelClarificationKeepsSession ==
  [ui EXCEPT !.showClarificationDialog = FALSE, !.ambiguousItems = << >>,
             !.clarifications = << >>,
             !.file = NoFile, !.uploadPhase = "upload"]

handleCancelClarification ==
  [ui EXCEPT !.showClarificationDialog = FALSE, !.ambiguousItems = << >>,
             !.clarifications = << >>, !.sessionId = NoSession,
             !.file = NoFile, !.uploadPhase = "upload"]

\* ------------------------------------------------------ the user's clicks
Clicked == clicks < MaxClicks /\ clicks' = clicks + 1

ItemIndices == {ui.ambiguousItems[k].index : k \in 1 .. Len(ui.ambiguousItems)}

\* The Select File label behind the file input
SelectFile(f) ==
  /\ UNCHANGED << host, askedPassword, lastSelect, cancelled >>
  /\ wrongTries' = 0
  /\ Clicked
  /\ PageOnTop
  /\ ui' = handleFileChange(f)
  /\ chosen' = IF ValidFile(f) THEN << >> ELSE chosen
  /\ ev' = Ev("SelectFile", IF ValidFile(f) THEN "accepted" ELSE "rejected")
  /\ UNCHANGED << net, server, importsDone >>

\* A slip: the upload request is made twice
handleUploadSendsTwice(password, who) ==
  IF ui.file = NoFile
  THEN /\ ui' = handleUploadNoFile
       /\ ev' = Ev(who, "no_file")
       /\ UNCHANGED net
  ELSE /\ ui' = handleUploadStart
       /\ net' = net \cup
            {uploadStatement(k, ui.file, password) :
               k \in {NewSlot, CHOOSE j \in FreeSlots :
                                 FreeSlots = {NewSlot} \/ j # NewSlot}}
       /\ ev' = Ev(who, "sent")

\* handleUpload(password): the file guard, then the request
handleUpload(password, who) ==
  IF ui.file = NoFile
  THEN /\ ui' = handleUploadNoFile
       /\ ev' = Ev(who, "no_file")
       /\ UNCHANGED net
  ELSE /\ ui' = handleUploadStart
       /\ net' = net \cup {uploadStatement(NewSlot, ui.file, password)}
       /\ ev' = Ev(who, "sent")

\* The Upload and Extract button
ClickUpload ==
  /\ UNCHANGED << host, askedPassword, lastSelect, wrongTries, cancelled >>
  /\ Clicked
  /\ PageOnTop
  /\ UploadButtonShown
  /\ ~UploadButtonDisabled
  /\ handleUpload(NoPassword, "ClickUpload")
  /\ UNCHANGED << server, chosen, importsDone >>

\* PasswordDialog: the Unlock button (handleSubmit, handlePasswordSubmit)
SubmitPassword(password) ==
  /\ UNCHANGED << host, askedPassword, lastSelect, wrongTries, cancelled >>
  /\ Clicked
  /\ PasswordOnTop
  /\ ~UnlockDisabled(password)
  /\ handleUpload(password, "SubmitPassword")
  /\ UNCHANGED << server, chosen, importsDone >>

\* PasswordDialog: the Cancel button
CancelPassword ==
  /\ UNCHANGED << host, askedPassword, lastSelect, wrongTries, cancelled >>
  /\ Clicked
  /\ PasswordOnTop
  /\ ui' = handlePasswordCancel
  /\ ev' = Ev("CancelPassword", "")
  /\ UNCHANGED << net, server, chosen, importsDone >>

\* DateRangePicker: Apply Filter (handleSubmit, handleDateRangeSelect)
ApplyDateRange(startDate, endDate) ==
  /\ UNCHANGED << host, askedPassword, lastSelect, wrongTries, cancelled >>
  /\ Clicked
  /\ PickerOnTop
  /\ ~PickerDisabled
  /\ ui' = handleDateRangeSelectStart
  /\ net' = net \cup
       {selectDateRange(NewSlot, ui.sessionId, startDate, endDate)}
  /\ ev' = Ev("ApplyDateRange", "sent")
  /\ UNCHANGED << server, chosen, importsDone >>

\* DateRangePicker: Cancel
CancelDateRange ==
  /\ UNCHANGED << host, askedPassword, lastSelect, wrongTries, cancelled >>
  /\ Clicked
  /\ PickerOnTop
  /\ ~PickerDisabled
  /\ ui' = handleDateRangeCancel
  /\ ev' = Ev("CancelDateRange", "")
  /\ UNCHANGED << net, server, chosen, importsDone >>

\* Clarification dialog: a category select
ChangeClarification(index, category) ==
  /\ UNCHANGED << host, askedPassword, lastSelect, wrongTries, cancelled >>
  /\ Clicked
  /\ ClarificationOnTop
  /\ index \in ItemIndices
  /\ ui' = handleClarificationChange(index, category)
  /\ chosen' = [i \in (DOMAIN chosen) \cup {index} |->
                  IF i = index THEN category ELSE chosen[i]]
  /\ ev' = Ev("ChangeClarification", category)
  /\ UNCHANGED << net, server, importsDone >>

\* Clarification dialog: Confirm & Import (handleSubmitClarifications)
SubmitClarifications ==
  /\ UNCHANGED << host, askedPassword, lastSelect, wrongTries, cancelled >>
  /\ Clicked
  /\ ClarificationOnTop
  /\ ~ConfirmDisabled
  /\ ui' = handleImportStart
  /\ net' = net \cup
       {importTransactions(NewSlot, ui.sessionId, ui.clarifications, FALSE)}
  /\ ev' = Ev("SubmitClarifications", "sent")
  /\ UNCHANGED << server, chosen, importsDone >>

\* Clarification dialog: Cancel and the X button
CancelClarification ==
  /\ UNCHANGED << host, askedPassword, lastSelect, wrongTries >>
  /\ cancelled' = cancelled \cup {ui.sessionId}
  /\ Clicked
  /\ ClarificationOnTop
  /\ ui' = handleCancelClarification
  /\ chosen' = << >>
  /\ ev' = Ev("CancelClarification", "")
  /\ UNCHANGED << net, server, importsDone >>

\* ----------------------------------------------------------- the backend
HasSession(sid) == \E x \in sessions : x.id = sid
Session(sid) == CHOOSE x \in sessions : x.id = sid

SessionRows(x) ==
  IF x.filtered THEN FilterRows(FileRows(x.file), x.start_date, x.end_date)
  ELSE FileRows(x.file)

\* Extractor: parse failure, password_required, wrong password, or a session
Extract(r) ==
  IF ~FileParseable(r.file) THEN ErrorResp("ParseFailure", "")
  ELSE IF FileEncrypted(r.file) /\ r.password = NoPassword
       THEN PasswordRequiredResp
  ELSE IF FileEncrypted(r.file) /\ r.password # FilePassword(r.file)
       THEN ErrorResp("WrongPassword", "Incorrect password")
  ELSE ExtractedResp(nextSession, FileRows(r.file))

\* On success the extractor allocates a new session under a fresh id
ExtractorStore(r, resp) ==
  IF resp.status = "extracted"
  THEN /\ sessions' = sessions \cup
            {[id |-> nextSession, file |-> r.file, filtered |-> FALSE,
              start_date |-> 0, end_date |-> 0]}
       /\ nextSession' = nextSession + 1
  ELSE UNCHANGED << sessions, nextSession >>

\* A slip: a session filtered before answers that nothing is left to clarify
RangeFilterOncePerSession(r) ==
  IF ~HasSession(r.session_id)
  THEN ErrorResp("SessionNotFound", "Session not found or expired, please re-upload")
  ELSE IF r.start_date > r.end_date
  THEN ErrorResp("InvalidDateRange", "")
  ELSE IF Session(r.session_id).filtered THEN SelectResp(<< >>)
  ELSE SelectResp(AmbiguousItemsOf(
         FilterRows(FileRows(Session(r.session_id).file),
                    r.start_date, r.end_date)))

\* Range Filter: NotFound, InvalidRange, or the ambiguous items of the window
RangeFilter(r) ==
  IF ~HasSession(r.session_id)
  THEN ErrorResp("SessionNotFound", "Session not found or expired, please re-upload")
  ELSE IF r.start_date > r.end_date
  THEN ErrorResp("InvalidDateRange", "")
  ELSE SelectResp(AmbiguousItemsOf(
         FilterRows(FileRows(Session(r.session_id).file),
                    r.start_date, r.end_date)))

\* The session keeps the window last selected
RangeFilterStore(r, resp) ==
  /\ sessions' =
       IF resp.status = "ok"
       THEN (sessions \ {Session(r.session_id)}) \cup
              {[Session(r.session_id) EXCEPT !.filtered = TRUE,
                  !.start_date = r.start_date, !.end_date = r.end_date]}
       ELSE sessions
  /\ UNCHANGED nextSession

\* Importer, first half: look the session up and read its filtered rows.
\* Nothing locks the session between this and the commit.
ServeImportRead(r) ==
  /\ UNCHANGED << host, askedPassword, lastSelect, wrongTries, cancelled >>
  /\ r \in net /\ r.kind = "import" /\ r.stage = "sent"
  /\ net' = (net \ {r}) \cup
       {IF HasSession(r.session_id)
        THEN [r EXCEPT !.stage = "reading", !.found = TRUE,
                       !.rows = SessionRows(Session(r.session_id))]
        ELSE [r EXCEPT !.stage = "reading", !.found = FALSE]}
  /\ ev' = Ev("ServeImportRead", IF HasSession(r.session_id) THEN "found"
                                 ELSE "SessionNotFound")
  /\ UNCHANGED << ui, server, chosen, importsDone, clicks >>

\* Rows that duplicate an already stored expense are skipped silently; the
\* expense table is outside the wizard, so which rows it already holds is
\* open: none of them or all of them.
DuplicateCounts(rows) == {0, Len(rows)}

\* Importer, second half: commit the rows, delete the session, report counts
Import(r, dup) ==
  IF r.found THEN ImportResp(Len(r.rows) - dup, Len(r.rows))
  ELSE ErrorResp("SessionNotFound",
                 "Session not found or expired, please re-upload")

ImporterStore(r, resp) ==
  IF resp.status = "ok"
  THEN /\ sessions' = {x \in sessions : x.id # r.session_id}
       /\ importsDone' = Append(importsDone, r.session_id)
       /\ UNCHANGED nextSession
  ELSE UNCHANGED << sessions, nextSession, importsDone >>

\* A request can also fail with nothing a message could be read from
FailedResp == ErrorResp("", "")

\* ---------------------------------------- UploadView: responses arriving
\* A step below is one request being served and its response handled by
\* the handler that awaits it.
Outcome(resp) ==
  IF resp.status # "error" THEN resp.status
  ELSE IF resp.error = "" THEN "failed" ELSE resp.error

\* handleUpload after the await
handleUploadResponse(resp) ==
  CASE resp.status = "password_required" -> handleUploadPasswordRequired
    [] resp.status = "extracted" -> handleUploadExtracted(resp)
    [] OTHER -> handleUploadCatch(resp)

UploadResponse(r) ==
  /\ UNCHANGED << host, lastSelect, cancelled >>
  /\ r \in net /\ r.kind = "upload"
  /\ \E resp \in {Extract(r), FailedResp} :
       /\ ExtractorStore(r, resp)
       /\ ui' = handleUploadResponse(resp)
       /\ askedPassword' =
            IF resp.status = "password_required"
            THEN askedPassword \cup {r.file} ELSE askedPassword
       /\ wrongTries' =
            IF r.file # ui.file THEN wrongTries
            ELSE IF Outcome(resp) = "WrongPassword" THEN wrongTries + 1
            ELSE 0
       /\ ev' = Ev("UploadResponse", Outcome(resp))
  /\ net' = net \ {r}
  /\ UNCHANGED << chosen, importsDone, clicks >>

\* The record of an answered select call: its bounds, what it returned, and
\* how many calls in a row had these bounds for the session
Answered(r, resp) ==
  LET sid == r.session_id
      again == /\ sid \in DOMAIN lastSelect
               /\ lastSelect[sid].start_date = r.start_date
               /\ lastSelect[sid].end_date = r.end_date
  IN [x \in (DOMAIN lastSelect) \cup {sid} |->
        IF x = sid
        THEN [start_date |-> r.start_date, end_date |-> r.end_date,
              needs_clarification |-> resp.needs_clarification,
              ambiguous_items |-> resp.ambiguous_items,
              calls |-> IF again THEN 2 ELSE 1]
        ELSE lastSelect[x]]

\* handleDateRangeSelect after the await; with nothing to clarify it goes
\* on into handleImport({}) with the session id it was called with
SelectResponse(r) ==
  /\ UNCHANGED << host, askedPassword, wrongTries, cancelled >>
  /\ r \in net /\ r.kind = "select"
  /\ \E resp \in {RangeFilter(r), FailedResp} :
       /\ RangeFilterStore(r, resp)
       /\ lastSelect' = IF resp.status = "ok"
                        THEN Answered(r, resp) ELSE lastSelect
       /\ IF resp.status = "error"
          THEN /\ ui' = handleDateRangeSelectCatch(resp)
               /\ net' = net \ {r}
               /\ chosen' = chosen
               /\ ev' = Ev("SelectResponse", Outcome(resp))
          ELSE IF resp.needs_clarification
          THEN /\ ui' = handleDateRangeSelectClarify(resp)
               /\ net' = net \ {r}
               /\ chosen' = << >>
               /\ ev' = Ev("SelectResponse", "clarify")
          ELSE /\ ui' = handleImportStart
               /\ net' = (net \ {r}) \cup
                    {importTransactions(r.slot, r.session_id, << >>, TRUE)}
               /\ chosen' = chosen
               /\ ev' = Ev("SelectResponse", "import")
  /\ UNCHANGED << importsDone, clicks >>

\* handleImport after the await
ImportResponse(r) ==
  /\ r \in net /\ r.kind = "import" /\ r.stage = "reading"
  /\ \E resp \in {Import(r, dup) : dup \in DuplicateCounts(r.rows)}
                   \cup {FailedResp} :
       /\ ImporterStore(r, resp)
       /\ IF resp.status = "error"
          THEN /\ ui' = handleImportCatch(resp, r.fromSelect)
               /\ chosen' = chosen
               /\ timeouts' = timeouts
          ELSE /\ ui' = handleImportSuccess(resp, r.fromSelect)
               /\ chosen' = << >>
               \* setTimeout(() => onUploadComplete(), 2000)
               /\ timeouts' =
                    IF onUploadComplete # "undefined" /\ resp.imported > 0
                    THEN timeouts + 1 ELSE timeouts
       /\ ev' = Ev("ImportResponse", Outcome(resp))
  /\ net' = net \ {r}
  /\ UNCHANGED << clicks, activeView, askedPassword, lastSelect, wrongTries,
                  cancelled, auth, app, onboarding >>

\* ------------------------------------------------------------ the system
Next ==
  \/ \E f \in FileIds : SelectFile(f)
  \/ ClickUpload
  \/ \E password \in PasswordInputs : SubmitPassword(password)
  \/ CancelPassword
  \/ \E startDate \in Dates, endDate \in Dates :
       ApplyDateRange(startDate, endDate)
  \/ CancelDateRange
  \/ \E index \in ItemIndices, category \in CategoryChoices :
       ChangeClarification(index, category)
  \/ SubmitClarifications
  \/ CancelClarification
  \/ \E r \in net : ServeImportRead(r)
  \/ \E r \in net : UploadResponse(r)
  \/ \E r \in net : SelectResponse(r)
  \/ \E r \in net : ImportResponse(r)

Spec == Init /\ [][Next]_vars

\* ------------------------------------------- authentication and api client
\* The number of requests made through api that are in flight together.
MaxApiCalls == 2
MaxRefreshes == 1
MaxProfileChecks == 1

\* AppContent: checkingProfile starts true and the effect on [user] sets it
\* false; user is null when AppContent mounts, so that is before anything
\* else can happen
checkingProfile == FALSE

\* AppContent's effect on [user], run for a user: checkOnboardingStatus
\* awaits profileAPI.getProfile()
checkOnboardingStatus ==
  /\ profileChecks < MaxProfileChecks
  /\ profileChecks' = profileChecks + 1
  /\ UNCHANGED << needsOnboarding, hasLocation >>

\* What AppContent renders
Screen ==
  IF checkingProfile THEN "checking"
  ELSE IF user # NoUser /\ needsOnboarding THEN "onboarding"
  ELSE IF fetching THEN "loading"
  ELSE IF location = "/dashboard" /\ user # NoUser THEN "dashboard"
  ELSE "login"

NoTokens == [access |-> NoToken, refresh |-> NoToken]
EmptyStorage == [access_token |-> NoToken, refresh_token |-> NoToken]

\* AuthProvider's effect on [tokens]: a set token is written, an unset one
\* removed
StorageEffect(t) == [access_token |-> t.access, refresh_token |-> t.refresh]

\* PublicRoute around the login page, ProtectedRoute around the dashboard
PublicRoute(u) == IF u # NoUser THEN "/dashboard" ELSE "/login"
ProtectedRoute(u) == IF u = NoUser THEN "/login" ELSE "/dashboard"

\* A page load at /login: every script state is rebuilt, AuthProvider reads
\* its tokens from localStorage and fetches the user if it finds an access
\* token; requests of the page left behind are gone
PageLoad(storage) ==
  /\ localStorage' = storage
  /\ tokens' = [access |-> storage.access_token,
                refresh |-> storage.refresh_token]
  /\ user' = NoUser
  /\ fetching' = (storage.access_token # NoToken)
  /\ location' = "/login"
  /\ apiCalls' = {}
  /\ refreshes' = {}
  /\ needsOnboarding' = FALSE
  /\ profileChecks' = 0
  /\ UNCHANGED << loggedOut, hasLocation >>

AuthInit ==
  /\ WizardInit
  /\ activeView = VIEWS.EXPENSES
  /\ localStorage = EmptyStorage
  /\ tokens = NoTokens
  /\ user = NoUser
  /\ fetching = FALSE
  /\ location = "/login"
  /\ apiCalls = {}
  /\ refreshes = {}
  /\ loggedOut = FALSE
  /\ needsOnboarding = FALSE
  /\ profileChecks = 0
  /\ hasLocation \in BOOLEAN
  /\ OnboardingInit

\* AuthProvider.login (register alike) answered with tokens; AuthPage then
\* navigates to the dashboard
Login(access, refresh) ==
  /\ location = "/login" /\ user = NoUser /\ ~fetching
  /\ tokens' = [access |-> access, refresh |-> refresh]
  /\ localStorage' = StorageEffect(tokens')
  /\ user' = "u"
  /\ location' = ProtectedRoute(user')
  /\ ev' = Ev("Login", access)
  /\ loggedOut' = FALSE
  /\ checkOnboardingStatus
  /\ UNCHANGED << pages, fetching, apiCalls, refreshes >>

\* AuthProvider.logout
logout ==
  /\ localStorage' = EmptyStorage
  /\ tokens' = NoTokens
  /\ user' = NoUser
  /\ loggedOut' = TRUE

\* fetchCurrentUser answered: the user, or 401 and logout
FetchUserOk ==
  /\ fetching
  /\ user' = "u"
  /\ fetching' = FALSE
  /\ location' = IF location = "/login" THEN PublicRoute(user') ELSE location
  /\ ev' = Ev("FetchUser", "ok")
  /\ checkOnboardingStatus
  /\ UNCHANGED << pages, localStorage, tokens, apiCalls, refreshes,
                  loggedOut >>

FetchUser401 ==
  /\ fetching
  /\ logout
  /\ fetching' = FALSE
  /\ ev' = Ev("FetchUser", "401")
  /\ UNCHANGED << pages, app, location, apiCalls, refreshes >>

\* Dashboard.handleSignOut: the two items are removed and the router goes
\* to /login, where PublicRoute decides on the context's user
handleSignOut ==
  /\ Screen = "dashboard"
  /\ localStorage' = EmptyStorage
  /\ location' = PublicRoute(user)
  /\ ev' = Ev("handleSignOut", "")
  /\ UNCHANGED << pages, app, tokens, user, fetching, apiCalls, refreshes,
                  loggedOut >>

\* A component calls an api method; the request interceptor adds the stored
\* access token
ApiIds == 1 .. MaxApiCalls

ApiRequest ==
  /\ location = "/dashboard" /\ user # NoUser
  /\ Cardinality(apiCalls) < MaxApiCalls
  /\ LET id == CHOOSE i \in ApiIds : \A c \in apiCalls : c.id # i
     IN apiCalls' = apiCalls \cup
          {[id |-> id, stage |-> "sent", retry |-> FALSE,
            bearer |-> localStorage.access_token, refresh |-> NoToken,
            sends |-> 1, refreshed |-> 0]}
  /\ ev' = Ev("ApiRequest", "")
  /\ UNCHANGED << pages, app, localStorage, tokens, user, fetching, location,
                  refreshes, loggedOut >>

\* The response interceptor, success
ApiOk(c) ==
  /\ c \in apiCalls /\ c.stage = "sent"
  /\ apiCalls' = apiCalls \ {c}
  /\ ev' = Ev("ApiOk", "")
  /\ UNCHANGED << pages, app, localStorage, tokens, user, fetching, location,
                  refreshes, loggedOut >>

\* A slip: the _retry mark is not looked at
AlreadyRetriedIgnored(c) == FALSE

\* originalRequest._retry
AlreadyRetried(c) == c.retry

\* The response interceptor, status 401
Api401(c) ==
  /\ c \in apiCalls /\ c.stage = "sent"
  /\ UNCHANGED pages
  /\ IF AlreadyRetried(c)
     THEN /\ apiCalls' = apiCalls \ {c}
          /\ ev' = Ev("Api401", "retried")
          /\ UNCHANGED << localStorage, tokens, user, fetching, location,
                          refreshes, loggedOut, app >>
     ELSE IF localStorage.refresh_token # NoToken
     THEN /\ apiCalls' = (apiCalls \ {c}) \cup
               {[c EXCEPT !.retry = TRUE, !.stage = "refreshing",
                          !.refresh = localStorage.refresh_token,
                          !.refreshed = @ + 1]}
          /\ ev' = Ev("Api401", "refreshing")
          /\ UNCHANGED << localStorage, tokens, user, fetching, location,
                          refreshes, loggedOut, app >>
     ELSE /\ PageLoad(localStorage)
          /\ ev' = Ev("Api401", "no_refresh_token")

\* The interceptor's refresh request answered with a new access token: it is
\* stored and the original request sent again
RefreshOk(c, access) ==
  /\ c \in apiCalls /\ c.stage = "refreshing"
  /\ localStorage' = [localStorage EXCEPT !.access_token = access]
  /\ apiCalls' = (apiCalls \ {c}) \cup
       {[c EXCEPT !.stage = "sent", !.bearer = access, !.sends = @ + 1]}
  /\ ev' = Ev("RefreshOk", access)
  /\ UNCHANGED << pages, app, tokens, user, fetching, location, refreshes,
                  loggedOut >>

\* The interceptor's refresh request failed
RefreshFail(c) ==
  /\ c \in apiCalls /\ c.stage = "refreshing"
  /\ PageLoad(EmptyStorage)
  /\ ev' = Ev("RefreshFail", "")
  /\ UNCHANGED pages

\* The refresh interval of AuthProvider fires (every 50 minutes while a
\* refresh token is set): a refresh request with that token
RefreshIds == 1 .. MaxRefreshes

RefreshTick ==
  /\ tokens.refresh # NoToken
  /\ Cardinality(refreshes) < MaxRefreshes
  /\ LET id == CHOOSE i \in RefreshIds : \A t \in refreshes : t.id # i
     IN refreshes' = refreshes \cup {[id |-> id, refresh |-> tokens.refresh]}
  /\ ev' = Ev("RefreshTick", "")
  /\ UNCHANGED << pages, app, localStorage, tokens, user, fetching, location,
                  apiCalls, loggedOut >>

\* The interval's request answered: setTokens(prev => ({ ...prev, access })),
\* and the effect on [tokens] writes the state to localStorage
RefreshTickOk(t, access) ==
  /\ t \in refreshes
  /\ refreshes' = refreshes \ {t}
  /\ tokens' = [tokens EXCEPT !.access = access]
  /\ localStorage' = StorageEffect(tokens')
  /\ ev' = Ev("RefreshTickOk", access)
  /\ UNCHANGED << pages, app, user, fetching, location, apiCalls, loggedOut >>

\* The interval's request failed: logout, and ProtectedRoute leaves the
\* dashboard
RefreshTickFail(t) ==
  /\ t \in refreshes
  /\ refreshes' = refreshes \ {t}
  /\ logout
  /\ location' = IF location = "/dashboard" THEN ProtectedRoute(user')
                 ELSE location
  /\ ev' = Ev("RefreshTickFail", "")
  /\ UNCHANGED << pages, app, fetching, apiCalls >>

\* checkOnboardingStatus answered: onboarding is needed when the profile has
\* no state or no city
ProfileCheckOk ==
  /\ profileChecks > 0
  /\ profileChecks' = profileChecks - 1
  /\ needsOnboarding' = ~hasLocation
  /\ ev' = Ev("ProfileCheck", "ok")
  /\ UNCHANGED << pages, auth, hasLocation >>

\* getProfile failed: onboarding is assumed to be needed
ProfileCheckFail ==
  /\ profileChecks > 0
  /\ profileChecks' = profileChecks - 1
  /\ needsOnboarding' = TRUE
  /\ ev' = Ev("ProfileCheck", "failed")
  /\ UNCHANGED << pages, auth, hasLocation >>

AuthNext ==
  \/ \E access \in AccessTokens, refresh \in RefreshTokens :
       Login(access, refresh)
  \/ FetchUserOk
  \/ FetchUser401
  \/ handleSignOut
  \/ ApiRequest
  \/ \E c \in apiCalls : ApiOk(c)
  \/ \E c \in apiCalls : Api401(c)
  \/ \E c \in apiCalls, access \in AccessTokens : RefreshOk(c, access)
  \/ \E c \in apiCalls : RefreshFail(c)
  \/ RefreshTick
  \/ \E t \in refreshes, access \in AccessTokens : RefreshTickOk(t, access)
  \/ \E t \in refreshes : RefreshTickFail(t)
  \/ ProfileCheckOk
  \/ ProfileCheckFail

AuthSpec == AuthInit /\ [][AuthNext]_vars

\* ------------------------------------------------------ OnboardingWizard
\* AppContent shows the wizard for a user whose profile check said so
Categories == {CATEGORY_ORDER[i] : i \in DOMAIN CATEGORY_ORDER}
indexOf(category) ==
  CHOOSE i \in DOMAIN CATEGORY_ORDER : CATEGORY_ORDER[i] = category

getCategoryStep(category) ==
  CASE category = "Groceries" -> STEPS.GROCERIES
    [] category = "Transport" -> STEPS.TRANSPORT
    [] category = "Entertainment" -> STEPS.ENTERTAINMENT
    [] category = "Bills" -> STEPS.BILLS

\* The category whose step is shown by renderStep
StepCategory(step) == CHOOSE c \in Categories : getCategoryStep(c) = step

\* The first selected category at or after position i, in CATEGORY_ORDER
RECURSIVE firstSelectedFrom(_, _)
firstSelectedFrom(i, categories) ==
  IF i > Len(CATEGORY_ORDER) THEN STEPS.REVIEW
  ELSE IF CATEGORY_ORDER[i] \in categories
       THEN getCategoryStep(CATEGORY_ORDER[i])
       ELSE firstSelectedFrom(i + 1, categories)

\* The last selected category at or before position i; none gives fallback
RECURSIVE lastSelectedUpTo(_, _)
lastSelectedUpTo(i, fallback) ==
  IF i < 1 THEN fallback
  ELSE IF CATEGORY_ORDER[i] \in selectedCategories
       THEN getCategoryStep(CATEGORY_ORDER[i])
       ELSE lastSelectedUpTo(i - 1, fallback)

\* A slip: the next category in the order, selected or not
getNextCategoryStepUnfiltered(currentCategory) ==
  firstSelectedFrom(indexOf(currentCategory) + 1, Categories)

getNextCategoryStep(currentCategory) ==
  firstSelectedFrom(indexOf(currentCategory) + 1, selectedCategories)

getPreviousCategoryStep(currentCategory) ==
  lastSelectedUpTo(indexOf(currentCategory) - 1, STEPS.CATEGORY_SELECTION)

OnboardingShown == Screen = "onboarding"

\* BasicInfoStep's Continue: state and city are required there
handleBasicInfoNext ==
  /\ OnboardingShown
  /\ currentStep = STEPS.BASIC_INFO
  /\ currentStep' = STEPS.CATEGORY_SELECTION
  /\ ev' = Ev("handleBasicInfoNext", "")
  /\ UNCHANGED << wizard, auth, app, selectedCategories, visited, wentBack >>

\* CategorySelectionStep's Continue with the categories toggled on
handleCategorySelect(categories) ==
  /\ OnboardingShown
  /\ currentStep = STEPS.CATEGORY_SELECTION
  /\ selectedCategories' = categories
  /\ currentStep' = IF categories = {} THEN STEPS.REVIEW
                    ELSE firstSelectedFrom(1, categories)
  /\ visited' = << currentStep' >>
  /\ wentBack' = FALSE
  /\ ev' = Ev("handleCategorySelect", "")
  /\ UNCHANGED << wizard, auth, app >>

\* handleGroceriesNext, handleTransportNext, handleEntertainmentNext,
\* handleBillsNext: the Continue button of the category step shown
handleCategoryNext ==
  /\ OnboardingShown
  /\ currentStep \in {STEPS.GROCERIES, STEPS.TRANSPORT, STEPS.ENTERTAINMENT,
                      STEPS.BILLS}
  /\ currentStep' = getNextCategoryStep(StepCategory(currentStep))
  /\ visited' = IF wentBack THEN visited ELSE Append(visited, currentStep')
  /\ ev' = Ev("handleCategoryNext", StepCategory(currentStep))
  /\ UNCHANGED << wizard, auth, app, selectedCategories, wentBack >>

\* The Back button
handleBack ==
  /\ OnboardingShown
  /\ currentStep > STEPS.BASIC_INFO
  /\ currentStep' =
       CASE currentStep = STEPS.CATEGORY_SELECTION -> STEPS.BASIC_INFO
         [] currentStep = STEPS.GROCERIES -> STEPS.CATEGORY_SELECTION
         [] currentStep = STEPS.REVIEW ->
              lastSelectedUpTo(Len(CATEGORY_ORDER), STEPS.CATEGORY_SELECTION)
         [] OTHER -> getPreviousCategoryStep(StepCategory(currentStep))
  /\ visited' = << >>
  /\ wentBack' = TRUE
  /\ ev' = Ev("handleBack", "")
  /\ UNCHANGED << wizard, auth, app, selectedCategories >>

\* ReviewStep's submit: the profile is saved with its location and
\* onComplete unmounts the wizard
handleFinalSubmit ==
  /\ OnboardingShown
  /\ currentStep = STEPS.REVIEW
  /\ hasLocation' = TRUE
  /\ needsOnboarding' = FALSE
  /\ currentStep' = STEPS.BASIC_INFO
  /\ selectedCategories' = {}
  /\ visited' = << >>
  /\ wentBack' = FALSE
  /\ ev' = Ev("handleFinalSubmit", "ok")
  /\ UNCHANGED << wizard, auth, profileChecks >>

\* ReviewStep's submit, a save failing: the error is thrown to the step
handleFinalSubmitFail ==
  /\ OnboardingShown
  /\ currentStep = STEPS.REVIEW
  /\ ev' = Ev("handleFinalSubmit", "failed")
  /\ UNCHANGED << wizard, auth, app, onboarding >>

\* A user without location, the profile check answered, the wizard mounted
OnboardingSpecInit ==
  /\ WizardInit
  /\ activeView = VIEWS.EXPENSES
  /\ localStorage = [access_token |-> "a1", refresh_token |-> "r1"]
  /\ tokens = [access |-> "a1", refresh |-> "r1"]
  /\ user = "u"
  /\ fetching = FALSE
  /\ location = "/dashboard"
  /\ apiCalls = {}
  /\ refreshes = {}
  /\ loggedOut = FALSE
  /\ needsOnboarding = TRUE
  /\ profileChecks = 0
  /\ hasLocation = FALSE
  /\ OnboardingInit

OnboardingNext ==
  \/ handleBasicInfoNext
  \/ \E categories \in SUBSET Categories : handleCategorySelect(categories)
  \/ handleCategoryNext
  \/ handleBack
  \/ handleFinalSubmit
  \/ handleFinalSubmitFail

OnboardingSpec == OnboardingSpecInit /\ [][OnboardingNext]_vars

\* ------------------------------------------------- the wizard's states
\* The states of the wizard as the component shows them: the password state
\* is the upload phase with the password dialog as the only dialog, and so on.
NoDialog(u) ==
  ~u.showPasswordDialog /\ ~u.showDateRangePicker /\ ~u.showClarificationDialog
InPassword(u) ==
  /\ u.uploadPhase = "upload" /\ u.showPasswordDialog
  /\ ~u.showDateRangePicker /\ ~u.showClarificationDialog
InDateRange(u) ==
  /\ u.uploadPhase = "date_range" /\ u.showDateRangePicker
  /\ ~u.showPasswordDialog /\ ~u.showClarificationDialog
InClarify(u) ==
  /\ u.uploadPhase = "clarify" /\ u.showClarificationDialog
  /\ ~u.showPasswordDialog /\ ~u.showDateRangePicker
BackAtUpload(u) ==
  /\ u.uploadPhase = "upload" /\ NoDialog(u)
  /\ u.file = NoFile /\ u.sessionId = NoSession

IsFailure(tag) ==
  tag \in {"ParseFailure", "WrongPassword", "SessionNotFound",
           "InvalidDateRange", "failed"}
IsResponse(op) == op \in {"UploadResponse", "SelectResponse", "ImportResponse"}

\* A control that starts a wizard request can be used
RequestControlEnabled ==
  \/ PageOnTop /\ UploadButtonShown /\ ~UploadButtonDisabled
  \/ PasswordOnTop /\ ui.file # NoFile
       /\ \E password \in PasswordInputs : ~UnlockDisabled(password)
  \/ PickerOnTop /\ ~PickerDisabled
  \/ ClarificationOnTop /\ ~ConfirmDisabled

\* The error text the dialog on top shows: the password dialog renders its
\* error prop, the date-range picker and the clarification dialog render none
ActiveDialogError == IF PasswordOnTop THEN ui.passwordError ELSE ""

\* ------------------------------------------------------------- the claims

\* C1: for every session id at most one import_transactions call commits;
\* every other import call for it, later or concurrent, fails.
C1_AtMostOneImportPerSession ==
  \A i, j \in DOMAIN importsDone :
    i # j => importsDone[i] # importsDone[j]

\* C2: while a wizard request is outstanding no control that starts another
\* one can be used, so at most one request is in flight.
C2_OneRequestAtATime ==
  /\ net # {} => ~RequestControlEnabled
  /\ Cardinality(net) <= 1

\* C3: an upload response password_required opens the password dialog and
\* records neither an error nor a session, none being created; a response
\* extracted stores the session id the backend allocated and its date range,
\* closes the password dialog and enters date_range with the picker shown.
C3_UploadResponseTransitions ==
  [][ /\ (ev'.op = "UploadResponse" /\ ev'.tag = "password_required")
           => /\ ui'.showPasswordDialog
              /\ ui'.error = ui.error
              /\ ui'.sessionId = ui.sessionId /\ sessions' = sessions
      /\ (ev'.op = "UploadResponse" /\ ev'.tag = "extracted")
           => /\ ui'.sessionId = nextSession
              /\ \E x \in sessions' \ sessions :
                   /\ x.id = ui'.sessionId
                   /\ ui'.dateRange =
                        << [min_date |-> MinDate(FileRows(x.file)),
                            max_date |-> MaxDate(FileRows(x.file))] >>
              /\ ~ui'.showPasswordDialog
              /\ ui'.uploadPhase = "date_range"
              /\ ui'.showDateRangePicker /\ ui'.dateRange # << >>
    ]_vars

C3_Witness ==
  /\ ev.op = "UploadResponse" /\ ev.tag = "extracted"
  /\ ui.uploadPhase = "date_range" /\ ui.sessionId # NoSession
  /\ PickerOnTop

\* C4: a parse failure answering an upload leaves the wizard in the upload
\* phase, with a non-empty error shown, no session id held and no session
\* created.
C4_ParseFailureStaysInUpload ==
  [][ (ev'.op = "UploadResponse" /\ ev'.tag = "ParseFailure"
         /\ ui.uploadPhase = "upload")
        => /\ ui'.uploadPhase = "upload"
           /\ ui'.error # ""
           /\ ui'.sessionId = NoSession
           /\ sessions' = sessions
    ]_vars

C4_Witness ==
  /\ ev.op = "UploadResponse" /\ ev.tag = "ParseFailure"
  /\ ui.uploadPhase = "upload" /\ ui.file = 3 /\ ui.error # ""

\* C5: cancel in the password, date_range and clarify states returns the
\* wizard to upload: no dialog open, no file selected, no session id held.
C5_CancelReturnsToUpload ==
  [][ ( \/ ev'.op = "CancelPassword" /\ InPassword(ui)
        \/ ev'.op = "CancelDateRange" /\ InDateRange(ui)
        \/ ev'.op = "CancelClarification" /\ InClarify(ui) )
        => BackAtUpload(ui')
    ]_vars

C5_Witness ==
  /\ ev.op = "CancelClarification" /\ BackAtUpload(ui)
  /\ sessions # {}

\* C6: cancel in date_range or in clarify while the backend holds the
\* wizard's session removes that session from the session store.
C6_CancelDestroysSession ==
  [][ (ev'.op \in {"CancelDateRange", "CancelClarification"}
         /\ HasSession(ui.sessionId))
        => ~(\E x \in sessions' : x.id = ui.sessionId)
    ]_vars

C8_ClarificationsSent ==
  [][ ev'.op = "SubmitClarifications"
        => \E q \in net' \ net :
             /\ q.kind = "import"
             /\ DOMAIN q.clarifications = ItemIndices
             /\ \A k \in 1 .. Len(ui.ambiguousItems) :
                  LET item == ui.ambiguousItems[k]
                  IN q.clarifications[item.index] =
                       IF item.index \in DOMAIN chosen
                       THEN chosen[item.index]
                       ELSE item.suggested_category
    ]_vars

\* A mapping of two items was sent, one changed by the user, one left alone
C8_Witness ==
  /\ ev.op = "SubmitClarifications"
  /\ \E q \in net :
       /\ q.kind = "import" /\ Cardinality(DOMAIN q.clarifications) = 2
       /\ \E i, j \in DOMAIN q.clarifications :
            /\ i \in DOMAIN chosen /\ q.clarifications[i] = chosen[i]
            /\ j \notin DOMAIN chosen
            /\ \E k \in 1 .. Len(ui.ambiguousItems) :
                 /\ ui.ambiguousItems[k].index = i
                 /\ ui.ambiguousItems[k].suggested_category # chosen[i]

\* C9: a wrong-password failure answering an upload leaves a wizard in the
\* password state there: dialog open, same file, no session id, and a
\* non-empty error text on the page.
C9_WrongPasswordKeepsPasswordState ==
  [][ (ev'.op = "UploadResponse" /\ ev'.tag = "WrongPassword"
         /\ InPassword(ui))
        => /\ InPassword(ui')
           /\ ui'.file = ui.file
           /\ ui'.sessionId = NoSession
           /\ sessions' = sessions
           /\ ui'.error # ""
    ]_vars

C9_Witness ==
  /\ ev.op = "UploadResponse" /\ ev.tag = "WrongPassword"
  /\ InPassword(ui) /\ PasswordOnTop
  /\ ui.file = 2 /\ ui.error = "Incorrect password"

\* C10: after a wizard request has failed with a dialog on top, that dialog
\* shows a non-empty error text.
C10_ErrorInActiveDialog ==
  (IsResponse(ev.op) /\ IsFailure(ev.tag) /\ ~PageOnTop)
    => ActiveDialogError # ""

\* C11: a successful import reporting at least one imported row schedules
\* the return to the Expenses view (or the host is already there); one
\* reporting none schedules nothing and leaves the view alone.
C11_ReturnsToExpensesAfterImport ==
  [][ (ev'.op = "ImportResponse" /\ ev'.tag = "ok")
        => IF ui'.result[1].imported > 0
           THEN timeouts' = timeouts + 1 \/ activeView' = VIEWS.EXPENSES
           ELSE timeouts' = timeouts /\ activeView' = activeView
    ]_vars

\* C12: an upload request carries a password only for a file an earlier
\* upload of which came back password_required; in particular the first
\* upload of a file carries none.
C12_PasswordOnlyAfterPasswordRequired ==
  [][ \A q \in net' \ net :
        (q.kind = "upload" /\ q.password # NoPassword)
          => q.file \in askedPassword
    ]_vars

\* C13: choosing a file whose lower-cased extension is not .csv, .pdf, .xlsx
\* or .xls shows an error, leaves no file selected and sends nothing; no
\* upload request is ever in flight for such a file.
C13_InvalidFileTypeRejected ==
  [][ /\ \A f \in FileIds :
           (SelectFile(f) /\ ~ValidFile(f))
             => /\ ui'.error # "" /\ ui'.file = NoFile
                /\ net' = net
      /\ \A q \in net' : q.kind = "upload" => ValidFile(q.file)
    ]_vars

\* d.txt was turned down while an upload of an accepted file is in flight
C13_Witness ==
  /\ ev.op = "SelectFile" /\ ev.tag = "rejected"
  /\ ui.file = NoFile /\ ui.error # "" /\ PageOnTop
  /\ \E q \in net : q.kind = "upload"

\* C14: right after an upload has ended in a parse failure, with no other
\* file picked in between, no upload of the file that cannot be parsed is
\* sent again.
C14_ParseFailureIsTerminal ==
  [][ (ev.op = "UploadResponse" /\ ev.tag = "ParseFailure")
        => \A q \in net' \ net :
             ~(q.kind = "upload" /\ ~FileParseable(q.file))
    ]_vars

\* C15: a select over a window that holds no row of the session answers
\* needs_clarification = false and the client goes straight on to an import
\* of that session with an empty mapping; an import that finds no row in
\* the session's window reports total = 0 and imported = 0.
C15_EmptyRangeImportsNothing ==
  [][ /\ \A r \in net \ net' :
           ( /\ ev'.op = "SelectResponse" /\ ev'.tag \in {"clarify", "import"}
             /\ FilterRows(FileRows(Session(r.session_id).file),
                           r.start_date, r.end_date) = << >> )
             => /\ ev'.tag = "import"
                /\ \E q \in net' \ net :
                     /\ q.kind = "import" /\ q.session_id = r.session_id
                     /\ q.clarifications = << >>
      /\ \A r \in net \ net' :
           ( /\ ev'.op = "ImportResponse" /\ ev'.tag = "ok"
             /\ r.fromSelect /\ r.rows = << >> )
             => /\ ui'.result[1].total = 0
                /\ ui'.result[1].imported = 0
    ]_vars

\* An import started by a select over an empty window has succeeded
C15_Witness ==
  /\ ev.op = "ImportResponse" /\ ev.tag = "ok"
  /\ ui.showDateRangePicker /\ ~ui.showClarificationDialog
  /\ ui.result # << >>
  /\ ui.result[1].total = 0 /\ ui.result[1].imported = 0
  /\ importsDone # << >>

C17_LogoutWhenRefreshImpossible ==
  [][ ( \/ ev'.op = "Api401" /\ ev'.tag = "no_refresh_token"
        \/ ev'.op = "RefreshFail" )
        => /\ localStorage' = EmptyStorage
           /\ location' = "/login"
    ]_vars

\* C18: no token is ever written to the browser's persistent storage.
C18_TokensInMemoryOnly == localStorage = EmptyStorage

\* Unlock clicked with a password, and the upload it sends
SubmitPasswordSends(password) ==
  /\ SubmitPassword(password)
  /\ \E q \in net' \ net :
       q.kind = "upload" /\ q.file = ui.file /\ q.password = password

\* C19: wrong-password retries are unlimited. A wrong-password failure for
\* the file of an open password dialog, however many came before it, leaves
\* the dialog on top with the same file, and the dialog then accepts any
\* non-blank password and sends an upload of that file carrying it.
C19_WrongPasswordRetriesUnlimited ==
  [][ (ev'.op = "UploadResponse" /\ ev'.tag = "WrongPassword"
         /\ PasswordOnTop /\ ui.file # NoFile /\ wrongTries' > wrongTries)
        => /\ PasswordOnTop'
           /\ ui'.file = ui.file
           /\ clicks' < MaxClicks
                => \A p \in {"good", "bad"} : (ENABLED SubmitPasswordSends(p))'
    ]_vars

C19_Witness ==
  /\ wrongTries >= 2
  /\ ev.op = "SubmitPassword" /\ ev.tag = "sent"
  /\ PasswordOnTop
  /\ \E q \in net : q.kind = "upload" /\ q.file = ui.file /\ q.password = "bad"

\* C20: a failed select-date-range or import request leaves a non-empty
\* error text in the wizard and changes neither its phase, nor its session
\* id, file and date range, nor which dialogs are open; the button that made
\* the request is released, so the same action can be taken again.
C20_FailureKeepsWizardState ==
  [][ (ev'.op \in {"SelectResponse", "ImportResponse"} /\ IsFailure(ev'.tag))
        => /\ ui'.error # ""
           /\ ui'.uploadPhase = ui.uploadPhase
           /\ ui'.sessionId = ui.sessionId
           /\ ui'.file = ui.file
           /\ ui'.dateRange = ui.dateRange
           /\ ui'.showPasswordDialog = ui.showPasswordDialog
           /\ ui'.showDateRangePicker = ui.showDateRangePicker
           /\ ui'.showClarificationDialog = ui.showClarificationDialog
           /\ ui'.clarifications = ui.clarifications
           /\ ev'.op = "SelectResponse" => ~ui'.uploading
           /\ ev'.op = "ImportResponse" => ~ui'.processingClarifications
    ]_vars

C20_Witness ==
  /\ ev.op = "ImportResponse" /\ IsFailure(ev.tag)
  /\ InClarify(ui) /\ ClarificationOnTop /\ ~ConfirmDisabled
  /\ HasSession(ui.sessionId)
  /\ ui.error = ImportDefaultError

C22_SessionIdIffPhase ==
  (ui.sessionId # NoSession) <=> (ui.uploadPhase \in {"date_range", "clarify"})

\* C23: once the clarification dialog has been cancelled for a session, no
\* import result for that session is put into the wizard's result, even if
\* an import request for it was in flight at the moment of the cancel.
C23_NoResultAfterCancel ==
  [][ (ev'.op = "ImportResponse" /\ ev'.tag = "ok"
         /\ importsDone'[Len(importsDone')] \in cancelled)
        => ui'.result = ui.result
    ]_vars

\* C24: once logout has run, and until a login succeeds, no access token is
\* held: neither in AuthProvider's tokens state nor in localStorage.
C24_NoTokenAfterLogout ==
  loggedOut => /\ tokens.access = NoToken
               /\ localStorage.access_token = NoToken

\* C25: in the state that results from clicking Sign Out on the dashboard the
\* auth context holds no user and no tokens, and the login page is shown.
C25_SignOutLogsOut ==
  [][ ev'.op = "handleSignOut"
        => /\ user' = NoUser
           /\ tokens' = NoTokens
           /\ location' = "/login"
    ]_vars

\* C26: while a user is logged in and their profile has no location, the
\* Dashboard is not rendered.
C26_NoDashboardBeforeOnboarding ==
  (user # NoUser /\ ~hasLocation) => Screen # "dashboard"

\* C27: a request made through api is sent at most twice and has at most one
\* refresh made for it; a 401 answering the re-sent request hands the error
\* to the caller: the request is gone, no refresh is started for it and
\* neither the stored tokens nor the page change.
C27_AtMostOneRefreshAndResend ==
  [][ /\ \A c \in apiCalls' : c.refreshed <= 1 /\ c.sends <= 2
      /\ (ev'.op = "Api401" /\ ev'.tag = "retried")
           => /\ \E c \in apiCalls :
                   /\ c.sends = 2 /\ c.refreshed = 1
                   /\ apiCalls' = apiCalls \ {c}
              /\ localStorage' = localStorage
              /\ location' = location
    ]_vars

C27_Witness ==
  /\ ev.op = "Api401" /\ ev.tag = "retried"
  /\ apiCalls = {}
  /\ location = "/dashboard" /\ localStorage.access_token # NoToken

\* C28: after the categories are selected, pressing next shows the steps of
\* the selected categories in the order Groceries, Transport, Entertainment,
\* Bills and then Review (Review at once when none is selected); the step of
\* a category that is not selected is never shown.
C28_StepsFollowSelection ==
  LET chosenInOrder == SelectSeq(CATEGORY_ORDER,
                                 LAMBDA c : c \in selectedCategories)
      expected == [i \in 1 .. Len(chosenInOrder) + 1 |->
                     IF i <= Len(chosenInOrder)
                     THEN getCategoryStep(chosenInOrder[i])
                     ELSE STEPS.REVIEW]
  IN /\ (visited # << >> /\ ~wentBack)
          => /\ Len(visited) <= Len(expected)
             /\ \A i \in 1 .. Len(visited) : visited[i] = expected[i]
             /\ currentStep = visited[Len(visited)]
     /\ currentStep \in {STEPS.GROCERIES, STEPS.TRANSPORT,
                          STEPS.ENTERTAINMENT, STEPS.BILLS}
          => StepCategory(currentStep) \in selectedCategories

C28_Witness ==
  /\ ev.op = "handleCategoryNext" /\ ~wentBack
  /\ selectedCategories = {"Groceries", "Entertainment"}
  /\ visited = << STEPS.GROCERIES, STEPS.ENTERTAINMENT, STEPS.REVIEW >>
  /\ currentStep = STEPS.REVIEW

====
